---- MODULE Spec2Model ----
(***************************************************************************)
(* jinqu: the array query provider.  execute(items, parts) walks a list of *)
(* query parts, buffers thenBy/thenByDescending parts, and dispatches the  *)
(* other parts through the funcs table.  Operators written as function*    *)
(* return generators; the others return arrays or scalars.                 *)
(***************************************************************************)
EXTENDS Integers, Sequences, FiniteSets, TLC

\* ------------------------------------------------------------- bounds
MaxLen == 3
MaxItem == 2
MaxTake == 2
MaxParts == 3

Items == 0..MaxItem
SeqsUpTo(n) == UNION {[1..m -> Items] : m \in 0..n}
Range(s) == {s[i] : i \in 1..Len(s)}

\* ------------------------------------------------------------- values
\* A JavaScript value as the operators see it.  An array has .length,
\* .filter, .slice and indices; a generator object only iterates (for..of),
\* its seq being the items it yields when drained.
Arr(s) == [kind |-> "array", seq |-> s, num |-> 0, err |-> ""]
Gen(s) == [kind |-> "generator", seq |-> s, num |-> 0, err |-> ""]
Scalar(n) == [kind |-> "scalar", seq |-> <<>>, num |-> n, err |-> ""]
Undefined == [kind |-> "undefined", seq |-> <<>>, num |-> 0, err |-> ""]
Null == [kind |-> "null", seq |-> <<>>, num |-> 0, err |-> ""]
Throw(e) == [kind |-> "throw", seq |-> <<>>, num |-> 0, err |-> e]

Iterable(v) == v.kind \in {"array", "generator"}

\* ------------------------------------------------------------- part arguments
\* IPartArgument: func (a callable, or null) and literal (a number or an
\* array, kept in two fields by its type).
NoFunc == "null"
FuncArg(f) == [func |-> f, literal |-> 0, array |-> <<>>]
LitArg(n) == [func |-> NoFunc, literal |-> n, array |-> <<>>]
ArrArg(s) == [func |-> NoFunc, literal |-> 0, array |-> s]
NoArg == [func |-> NoFunc, literal |-> 0, array |-> <<>>]
Part(t, a) == [type |-> t, args |-> a]

\* The callables the callers supply: predicates, selectors, comparers and
\* group value selectors.
Pred(f, x) == CASE f = "gt0" -> x > 0
                [] f = "even" -> x % 2 = 0
Sel(f, x) == CASE f = "id" -> x
               [] f = "mod2" -> x % 2
               [] f = "half" -> x \div 2
Cmp(f, a, b) == CASE f = "eq" -> a = b
                  [] f = "sameParity" -> a % 2 = b % 2
GroupSel(f, g) == CASE f = "length" -> Len(g.items)
                    [] f = "key" -> g.key

getArray(arg) == arg.array

\* ------------------------------------------------------------- lazy operators
RECURSIVE whereLoop(_, _)
whereLoop(s, predicate) ==
  IF s = <<>> THEN <<>>
  ELSE IF Pred(predicate.func, Head(s))
       THEN <<Head(s)>> \o whereLoop(Tail(s), predicate)
       ELSE whereLoop(Tail(s), predicate)

where(items, predicate) ==
  IF Iterable(items) THEN Gen(whereLoop(items.seq, predicate))
  ELSE Throw("TypeError")

select(items, selector) ==
  IF Iterable(items)
  THEN Gen([i \in 1..Len(items.seq) |-> Sel(selector.func, items.seq[i])])
  ELSE Throw("TypeError")

\* The items the take generator yields when drained: item number i is
\* yielded while ++i <= count.
take(items, count) ==
  IF Iterable(items)
  THEN Gen(SubSeq(items.seq, 1,
                  IF count.literal < Len(items.seq) THEN count.literal
                  ELSE Len(items.seq)))
  ELSE Throw("TypeError")

\* ------------------------------------------------------------- ordering
thenFuncs == <<"thenBy", "thenByDescending">>
descFuncs == <<"orderByDescending", "thenByDescending">>

\* Array.prototype.indexOf, zero-based, -1 when absent.
indexOf(arr, x) ==
  IF \E i \in 1..Len(arr) : arr[i] = x
  THEN (CHOOSE i \in 1..Len(arr) :
          arr[i] = x /\ \A j \in 1..(i - 1) : arr[j] # x) - 1
  ELSE -1

\* The comparator handed to sort.  desc is -1 when indexOf(...) is truthy
\* (any number but 0) and 1 otherwise; running off the end of the selectors
\* returns undefined, which sort reads as 0.
RECURSIVE compare(_, _, _)
compare(keySelectors, i1, i2) ==
  IF keySelectors = <<>> THEN 0
  ELSE LET s == Head(keySelectors)
           desc == IF indexOf(descFuncs, s.type) # 0 THEN -1 ELSE 1
           v1 == Sel(s.args[1].func, i1)
           v2 == Sel(s.args[1].func, i2)
       IN IF v1 > v2 THEN desc
          ELSE IF v1 < v2 THEN -1 * desc
          ELSE compare(Tail(keySelectors), i1, i2)

\* Array.prototype.sort is stable: an item goes after every item that does
\* not compare greater than it.
RECURSIVE insertSorted(_, _, _)
insertSorted(sorted, x, keySelectors) ==
  IF sorted = <<>> THEN <<x>>
  ELSE IF compare(keySelectors, Head(sorted), x) > 0 THEN <<x>> \o sorted
  ELSE <<Head(sorted)>> \o insertSorted(Tail(sorted), x, keySelectors)

RECURSIVE sortLoop(_, _)
sortLoop(s, keySelectors) ==
  IF s = <<>> THEN <<>>
  ELSE insertSorted(sortLoop(SubSeq(s, 1, Len(s) - 1), keySelectors),
                    s[Len(s)], keySelectors)

orderBy(items, keySelectors) ==
  IF items.kind = "array" THEN Arr(sortLoop(items.seq, keySelectors))
  ELSE Throw("TypeError")

\* ------------------------------------------------------------- grouping, distinct
\* The first loop of groupBy: a key met for the first time opens an empty
\* group, a key met again appends the item to its group.
RECURSIVE groupLoop(_, _, _)
groupLoop(s, keySelector, groups) ==
  IF s = <<>> THEN groups
  ELSE LET i == Head(s)
           k == Sel(keySelector.func, i)
           found == {g \in 1..Len(groups) : groups[g].key = k}
       IN IF found = {}
          THEN groupLoop(Tail(s), keySelector,
                         Append(groups, [key |-> k, items |-> <<>>]))
          ELSE LET a == CHOOSE g \in found : \A h \in found : g <= h
               IN groupLoop(Tail(s), keySelector,
                            [groups EXCEPT ![a].items = Append(@, i)])

groupBy(items, keySelector, valueSelector) ==
  IF Iterable(items)
  THEN LET groups == groupLoop(items.seq, keySelector, <<>>)
       IN Gen([g \in 1..Len(groups) |-> GroupSel(valueSelector.func, groups[g])])
  ELSE Throw("TypeError")

Equal(comparer, i1, i2) ==
  IF comparer.func # NoFunc THEN Cmp(comparer.func, i1, i2) ELSE i1 = i2

\* distinct: for each i the inner loop starts at j = i and breaks at the
\* first j whose item equals items[i]; the item is yielded when j ran to
\* items.length.  A generator has no length: the outer loop never runs.
RECURSIVE distinctLoop(_, _, _)
distinctLoop(s, comparer, i) ==
  IF i > Len(s) THEN <<>>
  ELSE IF \A j \in i..Len(s) : ~Equal(comparer, s[i], s[j])
       THEN <<s[i]>> \o distinctLoop(s, comparer, i + 1)
       ELSE distinctLoop(s, comparer, i + 1)

distinct(items, comparer) ==
  CASE items.kind = "array" -> Gen(distinctLoop(items.seq, comparer, 1))
    [] items.kind = "generator" -> Gen(<<>>)
    [] OTHER -> Throw("TypeError")

\* ------------------------------------------------------------- set algebra
\* for (let i of xs) if (!s.has(i)) { s.add(i); yield i; }
RECURSIVE unionLoop(_, _)
unionLoop(xs, s) ==
  IF xs = <<>> THEN <<>>
  ELSE IF Head(xs) \notin s
       THEN <<Head(xs)>> \o unionLoop(Tail(xs), s \cup {Head(xs)})
       ELSE unionLoop(Tail(xs), s)

union(items, other) ==
  IF Iterable(items)
  THEN Gen(unionLoop(items.seq, {})
           \o unionLoop(getArray(other), Range(items.seq)))
  ELSE Throw("TypeError")

RECURSIVE intersectLoop(_, _, _)
intersectLoop(xs, os, s) ==
  IF xs = <<>> THEN <<>>
  ELSE IF Head(xs) \in os /\ Head(xs) \notin s
       THEN <<Head(xs)>> \o intersectLoop(Tail(xs), os, s \cup {Head(xs)})
       ELSE intersectLoop(Tail(xs), os, s)

intersect(items, other) ==
  IF Iterable(items)
  THEN Gen(intersectLoop(items.seq, Range(getArray(other)), {}))
  ELSE Throw("TypeError")

RECURSIVE exceptLoop(_, _, _)
exceptLoop(xs, os, s) ==
  IF xs = <<>> THEN <<>>
  ELSE IF Head(xs) \notin os /\ Head(xs) \notin s
       THEN <<Head(xs)>> \o exceptLoop(Tail(xs), os, s \cup {Head(xs)})
       ELSE exceptLoop(Tail(xs), os, s)

\* except without its seen-set test: an item of A outside B is yielded
\* each time it occurs.
RECURSIVE exceptLoopNoSeen(_, _)
exceptLoopNoSeen(xs, os) ==
  IF xs = <<>> THEN <<>>
  ELSE IF Head(xs) \notin os
       THEN <<Head(xs)>> \o exceptLoopNoSeen(Tail(xs), os)
       ELSE exceptLoopNoSeen(Tail(xs), os)

exceptKeepsDuplicates(items, other) ==
  IF Iterable(items)
  THEN Gen(exceptLoopNoSeen(items.seq, Range(getArray(other))))
  ELSE Throw("TypeError")

except(items, other) ==
  IF Iterable(items)
  THEN Gen(exceptLoop(items.seq, Range(getArray(other)), {}))
  ELSE Throw("TypeError")

\* ------------------------------------------------------------- terminal operators
\* The items the predicate lets through (all of them when func is null).
RECURSIVE matchLoop(_, _)
matchLoop(s, predicate) ==
  IF s = <<>> THEN <<>>
  ELSE IF predicate.func # NoFunc /\ ~Pred(predicate.func, Head(s))
       THEN matchLoop(Tail(s), predicate)
       ELSE <<Head(s)>> \o matchLoop(Tail(s), predicate)

\* getSingle without the throw at the second match: the first match wins.
getSingleFirstMatch(items, predicate) ==
  LET matches == matchLoop(items.seq, predicate)
  IN IF Len(matches) > 0
     THEN [threw |-> FALSE, found |-> TRUE, item |-> Scalar(matches[1])]
     ELSE [threw |-> FALSE, found |-> FALSE, item |-> Null]

\* getSingle throws at the second match; otherwise [found, item].
getSingle(items, predicate) ==
  LET matches == matchLoop(items.seq, predicate)
  IN IF Len(matches) > 1
     THEN [threw |-> TRUE, found |-> FALSE, item |-> Throw("MultipleMatches")]
     ELSE IF Len(matches) = 1
     THEN [threw |-> FALSE, found |-> TRUE, item |-> Scalar(matches[1])]
     ELSE [threw |-> FALSE, found |-> FALSE, item |-> Null]

\* !items.length is true for an empty array and for a generator, whose
\* length is undefined.
single(items, predicate) ==
  IF ~Iterable(items) THEN Throw("TypeError")
  ELSE IF items.kind = "generator" \/ Len(items.seq) = 0
  THEN Throw("EmptySequence")
  ELSE LET r == getSingle(items, predicate)
       IN IF r.threw THEN r.item
          ELSE IF ~r.found THEN Throw("NoMatch")
          ELSE r.item

singleOrDefault(items, predicate) ==
  IF ~Iterable(items) THEN Throw("TypeError")
  ELSE getSingle(items, predicate).item

\* index > items.length is false when length is undefined; an index no
\* item sits at reads undefined.
elementAt(items, index) ==
  CASE items.kind = "array" ->
         IF index.literal > Len(items.seq) THEN Throw("IndexOutOfRange")
         ELSE IF index.literal < Len(items.seq)
         THEN Scalar(items.seq[index.literal + 1])
         ELSE Undefined
    [] items.kind = "generator" -> Undefined
    [] OTHER -> Throw("TypeError")

\* A generator has neither filter nor length.
count(items, predicate) ==
  CASE items.kind = "array" ->
         IF predicate.func # NoFunc
         THEN Scalar(Len(whereLoop(items.seq, predicate)))
         ELSE Scalar(Len(items.seq))
    [] items.kind = "generator" ->
         IF predicate.func # NoFunc THEN Throw("TypeError") ELSE Undefined
    [] OTHER -> Throw("TypeError")

\* ------------------------------------------------------------- dispatch
funcs == {"where", "ofType", "cast", "select", "selectMany", "joinWith",
          "groupJoin", "take", "takeWhile", "skip", "skipWhile", "groupBy",
          "distinct", "concatWith", "zip", "union", "intersect", "except",
          "defaultIfEmpty", "reverse", "first", "firstOrDefault", "last",
          "lastOrDefault", "single", "singleOrDefault", "elementAt",
          "elementAtOrDefault", "contains", "sequenceEqual", "any", "all",
          "count", "min", "max", "sum", "average", "aggregate"}

handlePart(items, part) ==
  IF part.type \notin funcs THEN Throw("UnknownOperator")
  ELSE CASE part.type = "where" -> where(items, part.args[1])
         [] part.type = "select" -> select(items, part.args[1])
         [] part.type = "take" -> take(items, part.args[1])
         [] part.type = "groupBy" -> groupBy(items, part.args[1], part.args[2])
         [] part.type = "distinct" -> distinct(items, part.args[1])
         [] part.type = "union" -> union(items, part.args[1])
         [] part.type = "intersect" -> intersect(items, part.args[1])
         [] part.type = "except" -> except(items, part.args[1])
         [] part.type = "single" -> single(items, part.args[1])
         [] part.type = "singleOrDefault" -> singleOrDefault(items, part.args[1])
         [] part.type = "elementAt" -> elementAt(items, part.args[1])
         [] part.type = "count" -> count(items, part.args[1])

\* check(items): a null source is rejected.
check(items) == items.kind # "null"

\* ------------------------------------------------------------- state
VARIABLES
  items,      \* the provider's source array (or null)
  parts,      \* the query parts handed to execute
  pc,         \* "start", "loop", "returned", "thrown"
  idx,        \* the position of the for..of loop over parts
  value,      \* the running value; after a throw, the error
  orderParts, \* the pending thenBy/thenByDescending parts
  gen         \* the take generator execute handed back, as its consumer drives it

vars == <<items, parts, pc, idx, value, orderParts, gen>>

NoGen == [state |-> "none", items |-> <<>>, count |-> 0, i |-> 0,
          pulled |-> 0, yielded |-> <<>>]
NewTake(upstream, n) == [state |-> "suspended", items |-> upstream, count |-> n,
                         i |-> 0, pulled |-> 0, yielded |-> <<>>]

\* ------------------------------------------------------------- inputs
Preds == {"gt0", "even"}
OrderTypes == {"orderBy", "orderByDescending", "thenBy", "thenByDescending"}

\* Parts of the pipelines of several parts.
LazyParts ==
  {Part("where", <<FuncArg("gt0")>>)}
  \cup {Part("select", <<FuncArg(f)>>) : f \in {"id", "half"}}
  \cup {Part(t, <<FuncArg("mod2")>>) : t \in OrderTypes}
  \cup {Part(t, <<FuncArg("id")>>) : t \in {"thenBy", "thenByDescending"}}
LastParts ==
  {Part("count", <<NoArg>>), Part("count", <<FuncArg("gt0")>>)}
  \cup {Part("take", <<LitArg(n)>>) : n \in 0..MaxTake}

\* The builder puts a scalar-returning part last.
Pipelines ==
  UNION {{p \in [1..n -> LazyParts \cup LastParts] :
            \A i \in 1..(n - 1) : p[i] \in LazyParts} : n \in 0..MaxParts}

\* Pipelines of one part, every modelled operator with its arguments.
OpParts ==
  {Part("groupBy", <<FuncArg(k), FuncArg(v)>>) :
     k \in {"id", "mod2"}, v \in {"length", "key"}}
  \cup {Part("distinct", <<a>>) :
          a \in {NoArg, FuncArg("eq"), FuncArg("sameParity")}}
  \cup {Part(t, <<ArrArg(o)>>) :
          t \in {"union", "intersect", "except"}, o \in SeqsUpTo(MaxLen - 1)}
  \cup {Part(t, <<a>>) :
          t \in {"single", "singleOrDefault"},
          a \in {NoArg} \cup {FuncArg(p) : p \in Preds}}
  \cup {Part("elementAt", <<LitArg(n)>>) : n \in 0..(MaxLen + 2)}
  \cup {Part("take", <<LitArg(n)>>) : n \in 0..MaxTake}
  \cup {Part("thenBy", <<FuncArg("id")>>)}

Sources == {Null} \cup {Arr(s) : s \in SeqsUpTo(MaxLen)}

InitWith(P) ==
  /\ items \in Sources
  /\ parts \in P
  /\ pc = "start"
  /\ idx = 0
  /\ value = Undefined
  /\ orderParts = <<>>
  /\ gen = NoGen

Init == InitWith(Pipelines)
InitOps == InitWith({<<>>} \cup {<<p>> : p \in OpParts})

\* ------------------------------------------------------------- execute
\* if (!parts || !parts.length) return items; check(items); value = items
ExecStart ==
  /\ pc = "start"
  /\ IF Len(parts) = 0
     THEN pc' = "returned" /\ value' = items /\ idx' = idx
     ELSE IF ~check(items)
     THEN pc' = "thrown" /\ value' = Throw("InvalidSource") /\ idx' = idx
     ELSE pc' = "loop" /\ value' = items /\ idx' = 1
  /\ UNCHANGED <<items, parts, orderParts, gen>>

\* One turn of the loop on a thenBy/thenByDescending part.
ExecPushOrder ==
  /\ pc = "loop"
  /\ idx <= Len(parts)
  /\ indexOf(thenFuncs, parts[idx].type) # -1
  /\ orderParts' = Append(orderParts, parts[idx])
  /\ idx' = idx + 1
  /\ UNCHANGED <<items, parts, pc, value, gen>>

\* One turn of the loop on any other part: the pending parts are flushed
\* by sorting items, then the part is dispatched.
ExecDispatch ==
  /\ pc = "loop"
  /\ idx <= Len(parts)
  /\ indexOf(thenFuncs, parts[idx].type) = -1
  /\ LET p == parts[idx]
         flushed == IF Len(orderParts) # 0 THEN orderBy(items, orderParts)
                    ELSE value
         r == handlePart(flushed, p)
     IN /\ value' = r
        /\ orderParts' = <<>>
        /\ IF r.kind = "throw"
           THEN pc' = "thrown" /\ idx' = idx
           ELSE pc' = "loop" /\ idx' = idx + 1
        /\ gen' = IF p.type = "take" /\ r.kind = "generator"
                  THEN NewTake(flushed.seq, p.args[1].literal)
                  ELSE NoGen
  /\ UNCHANGED <<items, parts>>

\* return value
ExecReturn ==
  /\ pc = "loop"
  /\ idx > Len(parts)
  /\ pc' = "returned"
  /\ UNCHANGED <<items, parts, idx, value, orderParts, gen>>

\* The consumer calls next() on the take generator: the for..of loop asks
\* its upstream for the next item, and only then tests ++i <= count.
ConsumeNext ==
  /\ pc = "returned"
  /\ gen.state = "suspended"
  /\ IF gen.pulled = Len(gen.items)
     THEN gen' = [gen EXCEPT !.state = "done"]
     ELSE LET item == gen.items[gen.pulled + 1]
              i == gen.i + 1
          IN IF i <= gen.count
             THEN gen' = [gen EXCEPT !.pulled = @ + 1, !.i = i,
                                     !.yielded = Append(@, item)]
             ELSE gen' = [gen EXCEPT !.pulled = @ + 1, !.i = i,
                                     !.state = "done"]
  /\ UNCHANGED <<items, parts, pc, idx, value, orderParts>>

Next == ExecStart \/ ExecPushOrder \/ ExecDispatch \/ ExecReturn \/ ConsumeNext

Spec == Init /\ [][Next]_vars
SpecOps == InitOps /\ [][Next]_vars

Done == pc \in {"returned", "thrown"}

\* ------------------------------------------------------------- properties
Arrived == Done /\ items.kind = "array"
OnePart(t) == Arrived /\ Len(parts) = 1 /\ parts[1].type = t

\* The items of s at the positions in I, in order.
RECURSIVE Pick(_, _, _)
Pick(s, I, i) ==
  IF i > Len(s) THEN <<>>
  ELSE (IF i \in I THEN <<s[i]>> ELSE <<>>) \o Pick(s, I, i + 1)

Dedup(s) == Pick(s, {i \in 1..Len(s) : \A j \in 1..(i - 1) : s[j] # s[i]}, 1)
NoDup(s) == \A i, j \in 1..Len(s) : i # j => s[i] # s[j]
Occ(s, x) == Cardinality({i \in 1..Len(s) : s[i] = x})
Ascending(t) == t \in {"orderBy", "thenBy"}

\* out holds the items of src sorted ascending by k, then ascending by k2,
\* items equal on both keys in their order in src.
StableSorted(src, out, k, k2) ==
  /\ Len(out) = Len(src)
  /\ \E pi \in Permutations(1..Len(src)) :
       /\ \A j \in 1..Len(src) : out[j] = src[pi[j]]
       /\ \A j, h \in 1..Len(src) :
            j < h =>
              \/ Sel(k, out[j]) < Sel(k, out[h])
              \/ /\ Sel(k, out[j]) = Sel(k, out[h])
                 /\ \/ Sel(k2, out[j]) < Sel(k2, out[h])
                    \/ /\ Sel(k2, out[j]) = Sel(k2, out[h])
                       /\ pi[j] < pi[h]

\* C1: execute(S, [orderBy k, thenBy k2]) on a non-null S returns, without
\* raising UnknownOperator, the items of S sorted ascending by k, then by
\* k2, stably; the ordering run that ends the list is flushed.
C1_OrderByThenBySorted ==
  (Arrived /\ Len(parts) = 2 /\ parts[1].type = "orderBy"
     /\ parts[2].type = "thenBy")
  => /\ pc = "returned"
     /\ Iterable(value)
     /\ StableSorted(items.seq, value.seq,
                     parts[1].args[1].func, parts[2].args[1].func)

\* C2: the pipeline [where p, count] gives the same number as [count p]
\* on the same source.
C2_CountAfterWhere ==
  (Arrived /\ Len(parts) = 2 /\ parts[1].type = "where"
     /\ parts[2] = Part("count", <<NoArg>>))
  => /\ pc = "returned"
     /\ value = count(items, parts[1].args[1])

\* C3: a consumer that drains take(S, n), S holding more than n items,
\* pulls at most n items from S.
C3_TakePullsAtMostN ==
  (gen.state = "done" /\ Len(gen.items) > gen.count)
  => gen.pulled <= gen.count

\* C4: groupBy partitions S: groups in first-seen key order, each holding
\* every item whose key equals the group's key, the sizes summing to |S|.
C4_GroupByPartitions ==
  OnePart("groupBy")
  => LET S == items.seq
         keys == [i \in 1..Len(S) |-> Sel(parts[1].args[1].func, S[i])]
         firstKeys == Dedup(keys)
         size(k) == Cardinality({i \in 1..Len(S) : keys[i] = k})
     IN /\ pc = "returned"
        /\ Len(value.seq) = Len(firstKeys)
        /\ \A g \in 1..Len(firstKeys) :
             value.seq[g] = IF parts[1].args[2].func = "key" THEN firstKeys[g]
                            ELSE size(firstKeys[g])

\* C5: distinct(S) yields the item at position i exactly when no item at an
\* earlier position equals it under the comparer (== without one).
C5_DistinctFirstOccurrences ==
  OnePart("distinct")
  => LET S == items.seq
         firsts == {i \in 1..Len(S) :
                      \A j \in 1..(i - 1) : ~Equal(parts[1].args[1], S[j], S[i])}
     IN /\ pc = "returned"
        /\ value.seq = Pick(S, firsts, 1)
        /\ Len(value.seq) <= Len(S)

\* C6: elementAt(S, i) returns S[i] for 0 <= i < |S| and fails with
\* IndexOutOfRange for every i >= |S|, i = |S| included.
C6_ElementAtBounds ==
  OnePart("elementAt")
  => LET S == items.seq
         i == parts[1].args[1].literal
     IN IF i < Len(S)
        THEN pc = "returned" /\ value = Scalar(S[i + 1])
        ELSE pc = "thrown" /\ value = Throw("IndexOutOfRange")

\* C7: under identity equality every item of intersect(A,B) is in A and in
\* B; except(A,B) yields exactly the distinct items of A that intersect(A,B)
\* does not yield; union, intersect and except yield no duplicates and keep
\* the first-occurrence order of A.
C7_SetAlgebra ==
  (Arrived /\ Len(parts) = 1
     /\ parts[1].type \in {"union", "intersect", "except"})
  => LET A == items.seq
         B == getArray(parts[1].args[1])
         out == value.seq
         t == parts[1].type
         firstsOfA == Dedup(A)
         common == Range(intersect(items, parts[1].args[1]).seq)
     IN /\ pc = "returned"
        /\ value.kind = "generator"
        /\ NoDup(out)
        /\ t = "intersect" =>
             /\ Range(out) \subseteq Range(A) \cap Range(B)
             /\ out = Pick(firstsOfA,
                           {i \in 1..Len(firstsOfA) : firstsOfA[i] \in Range(out)}, 1)
        /\ t = "except" =>
             out = Pick(firstsOfA,
                        {i \in 1..Len(firstsOfA) : firstsOfA[i] \notin common}, 1)
        /\ t = "union" =>
             /\ Len(out) >= Len(firstsOfA)
             /\ SubSeq(out, 1, Len(firstsOfA)) = firstsOfA

\* except has run on an A with a repeated item, some of A in B and some not.
C7_Witness ==
  /\ OnePart("except")
  /\ pc = "returned"
  /\ ~NoDup(items.seq)
  /\ value.seq # <<>>
  /\ intersect(items, parts[1].args[1]).seq # <<>>

\* C8: single and singleOrDefault both fail with MultipleMatches when more
\* than one item matches; singleOrDefault returns the absence value when S
\* is empty or nothing matches; single fails with EmptySequence on an empty
\* S, with NoMatch when nothing matches, and returns the one matching item.
C8_SingleFamily ==
  (Arrived /\ Len(parts) = 1
     /\ parts[1].type \in {"single", "singleOrDefault"})
  => LET S == items.seq
         p == parts[1].args[1].func
         hits == {i \in 1..Len(S) : p = NoFunc \/ Pred(p, S[i])}
         t == parts[1].type
     IN /\ Cardinality(hits) > 1 =>
             pc = "thrown" /\ value = Throw("MultipleMatches")
        /\ (t = "singleOrDefault" /\ hits = {}) =>
             pc = "returned" /\ value = Null
        /\ (t = "single" /\ Len(S) = 0) =>
             pc = "thrown" /\ value = Throw("EmptySequence")
        /\ (t = "single" /\ Len(S) > 0 /\ hits = {}) =>
             pc = "thrown" /\ value = Throw("NoMatch")
        /\ (t = "single" /\ Cardinality(hits) = 1) =>
             pc = "returned" /\ \E i \in hits : value = Scalar(S[i])

\* singleOrDefault has met a second item matching its predicate.
C8_Witness ==
  /\ OnePart("singleOrDefault")
  /\ parts[1].args[1].func # NoFunc
  /\ Cardinality({i \in 1..Len(items.seq) :
                    Pred(parts[1].args[1].func, items.seq[i])}) > 1
  /\ pc = "thrown"

\* C9: in [where p, thenBy k, select f] the flush sorts the running value
\* the parts before the run produced, so the final result holds f of
\* exactly the items where let through.
C9_FlushKeepsEarlierParts ==
  (Arrived /\ Len(parts) = 3 /\ parts[1].type = "where"
     /\ indexOf(thenFuncs, parts[2].type) # -1 /\ parts[3].type = "select")
  => LET expected == select(where(items, parts[1].args[1]), parts[3].args[1]).seq
     IN /\ pc = "returned"
        /\ Len(value.seq) = Len(expected)
        /\ \A x \in Range(expected) : Occ(value.seq, x) = Occ(expected, x)

\* a comes strictly before b under the run: equal on the keys before some
\* part, and at that part smaller (ascending part) or greater (descending).
Before(run, a, b) ==
  \E m \in 1..Len(run) :
    /\ \A h \in 1..(m - 1) : Sel(run[h].args[1].func, a) = Sel(run[h].args[1].func, b)
    /\ IF Ascending(run[m].type)
       THEN Sel(run[m].args[1].func, a) < Sel(run[m].args[1].func, b)
       ELSE Sel(run[m].args[1].func, a) > Sel(run[m].args[1].func, b)

\* C10: each key of a fused run orders by its own part's direction:
\* ascending for orderBy/thenBy, descending for the Descending parts.
C10_DirectionPerPart ==
  (Arrived /\ pc = "returned" /\ Len(parts) \in 2..3
     /\ parts[Len(parts)] = Part("select", <<FuncArg("id")>>)
     /\ \A m \in 1..(Len(parts) - 1) : indexOf(thenFuncs, parts[m].type) # -1)
  => LET run == SubSeq(parts, 1, Len(parts) - 1)
     IN \A j, h \in 1..Len(value.seq) :
          j < h => ~Before(run, value.seq[h], value.seq[j])

====
